---------------------------- MODULE Spec2Model ----------------------------
(***************************************************************************)
(* Model of the query-resolution pipeline of companyprospect-mcp:          *)
(*   - api_modules/lookups.py      lookup, lookup_many                     *)
(*   - api_modules/titles.py       lookup_title, lookup_title_many         *)
(*   - api_modules/lookalikes.py   lookalike_from_ids, lookalike_from_term *)
(*   - api_modules/query_parser.py parse_query, _extract_comp_ids,         *)
(*                                 _extract_title_ids                      *)
(*   - api/index.py                handler.do_POST, _check_api_key         *)
(*   - companyprospect_mcp_v01.py  fastapi_app                             *)
(*                                                                         *)
(* A result row is modelled by its first column (the primary id): a row is *)
(* <<id>>, or <<>> for an empty row.  Python truthiness is kept: the id 0  *)
(* and the empty row are falsy.                                            *)
(***************************************************************************)
EXTENDS Integers, Sequences, FiniteSets, TLC

\* ------------------------------------------------------------------------
\* Bounds of the model
\* ------------------------------------------------------------------------
MaxTerms == 2
\* rows the backend returns over one batch, all terms together
MaxRows == 3
\* rows the title backend returns over one batch, all terms together
MaxTitleRows == 2
MaxId == 2
\* requests the server handles at the same time
MaxRequests == 2

\* ------------------------------------------------------------------------
\* Program constants
\* ------------------------------------------------------------------------
LOOKUP_MAX_LIMIT == 100
DEFAULT_LIMIT == 10
\* 'dedupe: bool = True' of lookup_many
DEFAULT_DEDUPE == TRUE
\* 'dedupe: bool = False' of lookup_title_many
TITLE_DEFAULT_DEDUPE == FALSE
HTTP_OK == 200

\* ------------------------------------------------------------------------
\* Input domains
\* ------------------------------------------------------------------------
\* search terms; the term at position k of a list is empty, "apple" (so that
\* terms repeat) or the k-th name of the pool
PoolNames == <<"apple", "orange", "meta", "google">>
Limits == {1, 5000}
ErrorStatuses == {500}
Ids == 0..MaxId
Rows == {<<>>} \cup {<<i>> : i \in Ids}
COLUMNS == <<"comp_id", "comp_slug", "comp_name", "comp_web", "dist">>

SeqsUpTo(S, n) == UNION {[1..k -> S] : k \in 0..n}

TermLists ==
    UNION {{qs \in [1..n -> {"", "apple"} \cup {PoolNames[k] : k \in 1..n}] :
                \A k \in 1..n : qs[k] \in {"", "apple", PoolNames[k]}} :
           n \in 0..MaxTerms}
EmbeddingErrors == {"Embedding timeout", "Embedding failed"}

\* ------------------------------------------------------------------------
\* Python helpers
\* ------------------------------------------------------------------------
Min(a, b) == IF a <= b THEN a ELSE b
Max(a, b) == IF a >= b THEN a ELSE b

\* rows[:n] with Python's slice semantics (negative n counts from the end)
PySlice(s, n) ==
    IF n >= 0
    THEN SubSeq(s, 1, Min(n, Len(s)))
    ELSE SubSeq(s, 1, Max(Len(s) + n, 0))

\* 'if not query': the empty string is falsy
TruthyTerm(q) == q # ""

\* 'comp_id = row[0] if row else None' followed by 'if comp_id': the empty
\* row gives None, and None and 0 are falsy
TruthyFirstCol(row) == Len(row) > 0 /\ row[1] # 0

\* ------------------------------------------------------------------------
\* lookups.py: lookup
\* ------------------------------------------------------------------------
\* the early return of lookup / lookup_title for an empty query (no request
\* is sent)
EmptyLookupResult == [columns |-> <<>>, rows |-> <<>>]

\* the 'limit' query variable of the request
RequestLimit(limit) == Min(limit, LOOKUP_MAX_LIMIT)

\* the request lookup POSTs for a non-empty query
LookupRequest(q, limit) == [query |-> q, limit |-> RequestLimit(limit)]

\* what lookup returns once the backend has answered resp
LookupResult(q, limit, resp) ==
    IF resp.status_code = HTTP_OK
    THEN [columns |-> COLUMNS,
          rows |-> PySlice(resp.data, Min(limit, LOOKUP_MAX_LIMIT))]
    ELSE [query |-> q, error |-> <<"Status", resp.status_code>>]

\* titles.py: what lookup_title returns when the embedding times out or fails
EmbeddingErrorResult(q, e) == [query |-> q, error |-> <<e>>]

\* ------------------------------------------------------------------------
\* lookups.py: lookup_many, the merge pass after asyncio.gather
\* ------------------------------------------------------------------------
HasRows(r) == "rows" \in DOMAIN r

\* UniqueRows without 'seen_ids.add(comp_id)'
RECURSIVE UniqueRowsNoAdd(_, _, _)
UniqueRowsNoAdd(rows, k, st) ==
    IF k > Len(rows) THEN st
    ELSE LET row == rows[k]
         IN IF TruthyFirstCol(row) /\ row[1] \notin st.seen
            THEN UniqueRowsNoAdd(rows, k + 1,
                     [rows |-> Append(st.rows, row), seen |-> st.seen])
            ELSE UniqueRowsNoAdd(rows, k + 1, st)

\* the inner loop over r['rows']: st = [rows |-> unique_rows, seen |-> seen_ids]
RECURSIVE UniqueRows(_, _, _)
UniqueRows(rows, k, st) ==
    IF k > Len(rows) THEN st
    ELSE LET row == rows[k]
         IN IF TruthyFirstCol(row) /\ row[1] \notin st.seen
            THEN UniqueRows(rows, k + 1,
                     [rows |-> Append(st.rows, row),
                      seen |-> st.seen \cup {row[1]}])
            ELSE UniqueRows(rows, k + 1, st)

\* DedupLoop with 'seen_ids = set()' inside the loop: one set per term
RECURSIVE DedupLoopPerTerm(_, _, _, _)
DedupLoopPerTerm(qs, rs, k, st) ==
    IF k > Min(Len(qs), Len(rs)) THEN st
    ELSE LET r == rs[k]
         IN IF HasRows(r)
            THEN LET u == UniqueRows(r.rows, 1, [rows |-> <<>>, seen |-> {}])
                 IN DedupLoopPerTerm(qs, rs, k + 1,
                        [out |-> Append(st.out,
                                    [query |-> qs[k],
                                     result |-> [r EXCEPT !.rows = u.rows]]),
                         seen |-> st.seen \cup u.seen])
            ELSE DedupLoopPerTerm(qs, rs, k + 1,
                     [out |-> Append(st.out, [query |-> qs[k], result |-> r]),
                      seen |-> st.seen])

\* DedupLoop with the else branch starting seen_ids afresh: an error entry
\* makes the pass forget the ids emitted before it
RECURSIVE DedupLoopErrorResets(_, _, _, _)
DedupLoopErrorResets(qs, rs, k, st) ==
    IF k > Min(Len(qs), Len(rs)) THEN st
    ELSE LET r == rs[k]
         IN IF HasRows(r)
            THEN LET u == UniqueRows(r.rows, 1, [rows |-> <<>>, seen |-> st.seen])
                 IN DedupLoopErrorResets(qs, rs, k + 1,
                        [out |-> Append(st.out,
                                    [query |-> qs[k],
                                     result |-> [r EXCEPT !.rows = u.rows]]),
                         seen |-> u.seen])
            ELSE DedupLoopErrorResets(qs, rs, k + 1,
                     [out |-> Append(st.out, [query |-> qs[k], result |-> r]),
                      seen |-> {}])

\* the outer loop 'for q, r in zip(queries, results)':
\* st = [out |-> deduped_results, seen |-> seen_ids]
RECURSIVE DedupLoop(_, _, _, _)
DedupLoop(qs, rs, k, st) ==
    IF k > Min(Len(qs), Len(rs)) THEN st
    ELSE LET r == rs[k]
         IN IF HasRows(r)
            THEN LET u == UniqueRows(r.rows, 1, [rows |-> <<>>, seen |-> st.seen])
                 IN DedupLoop(qs, rs, k + 1,
                        [out |-> Append(st.out,
                                    [query |-> qs[k],
                                     result |-> [r EXCEPT !.rows = u.rows]]),
                         seen |-> u.seen])
            ELSE DedupLoop(qs, rs, k + 1,
                     [out |-> Append(st.out, [query |-> qs[k], result |-> r]),
                      seen |-> st.seen])

\* [{'query': q, 'result': r} for q, r in zip(queries, results)]
ZipResults(qs, rs) ==
    [k \in 1..Min(Len(qs), Len(rs)) |-> [query |-> qs[k], result |-> rs[k]]]

Reverse(sq) == [k \in 1..Len(sq) |-> sq[Len(sq) + 1 - k]]

\* MergeResults over the results in another order than the input order
MergeResultsReversed(qs, rs, dd) ==
    IF dd
    THEN DedupLoop(Reverse(qs), Reverse(rs), 1, [out |-> <<>>, seen |-> {}])
    ELSE [out |-> ZipResults(Reverse(qs), Reverse(rs)), seen |-> {}]

\* what lookup_many does with the gathered results
MergeResults(qs, rs, dd) ==
    IF dd
    THEN DedupLoop(qs, rs, 1, [out |-> <<>>, seen |-> {}])
    ELSE [out |-> ZipResults(qs, rs), seen |-> {}]

\* ------------------------------------------------------------------------
\* State
\* ------------------------------------------------------------------------
VARIABLES
    pc,        \* lookup_many / lookup_title_many: "idle", "awaiting" (at
               \* asyncio.gather), "returned", "raised"
    endpoint,  \* "lookup" (lookup_many) or "title" (lookup_title_many)
    queries,   \* the 'queries' argument
    limit,     \* the 'limit' argument
    dedupe,    \* the 'dedupe' argument
    tasks,     \* one lookup coroutine per term: [st, res]
    sent,      \* the requests POSTed to the backend, in order
    overtaken, \* history: some coroutine finished while one of an earlier
               \* term was still running
    out,       \* the list the call returned
    seen_ids   \* the seen_ids set of the merge pass

batchVars == <<pc, endpoint, queries, limit, dedupe, tasks, sent, overtaken, out,
               seen_ids>>

VARIABLES
    ppc,             \* parse_query: "idle" (not called), "start", "resolve", "await_lookup",
                     \* "titles", "await_titles", "returned", "raised"
    lookup_many_fn,  \* is the lookup_many_fn argument given (not None)
    lookup_title_many_fn, \* is the lookup_title_many_fn argument given
    completion_up,   \* the CompletionProvider answers (FALSE: every call
                     \* made from now on times out, raises or is malformed)
    content,         \* response.choices[0].message.content
    parsed,          \* the dict json.loads produced
    result,          \* the dict parse_query builds and returns
    stage,           \* index of the next name group of step 4
    lookup_results,  \* the local of that name: the batch last received
    completions,     \* log of the completion calls made
    lookups          \* log of the lookup_many_fn / lookup_title_many_fn calls

parseVars == <<ppc, lookup_many_fn, lookup_title_many_fn, completion_up, content,
               parsed, result, stage, lookup_results, completions, lookups>>

VARIABLES
    cpc,      \* one call of lookup, lookup_title, lookalike_from_ids or
              \* lookalike_from_term: "idle", "embedding", "pending" (POST sent),
              \* "returned", "raised"
    args,     \* the arguments of the call
    embed,    \* the embedding of the call: "none", "running", "ok",
              \* "timeout" (more than 120 s), "raised"
    request,  \* the POSTs the call sent to the backend
    retval    \* the dict the call returned

callVars == <<cpc, args, embed, request, retval>>

VARIABLES
    environ,  \* os.environ of the server process: the keys it holds
    reqs,     \* the requests the server is handling, each with the
              \* credentials it arrived with and its position
    upstream  \* the calls made upstream, each with the request it serves
              \* and the credentials it was made with

serverVars == <<environ, reqs, upstream>>

auxVars == <<callVars, serverVars>>

vars == <<batchVars, parseVars, callVars, serverVars>>

NoResult == [none |-> TRUE]

BatchInit ==
    /\ pc = "idle"
    /\ endpoint = "lookup"
    /\ queries = <<>>
    /\ limit = DEFAULT_LIMIT
    /\ dedupe = TRUE
    /\ tasks = <<>>
    /\ sent = <<>>
    /\ overtaken = FALSE
    /\ out = <<>>
    /\ seen_ids = {}

\* the state of parse_query while only the batch lookups run
ParseIdle ==
    /\ ppc = "idle"
    /\ lookup_many_fn = FALSE
    /\ lookup_title_many_fn = FALSE
    /\ completion_up = TRUE
    /\ content = NoResult
    /\ parsed = NoResult
    /\ result = NoResult
    /\ stage = 1
    /\ lookup_results = <<>>
    /\ completions = <<>>
    /\ lookups = <<>>

\* no single call is running
CallIdle ==
    /\ cpc = "idle"
    /\ args = NoResult
    /\ embed = "none"
    /\ request = <<>>
    /\ retval = NoResult

\* the server handles no request
ServerIdle ==
    /\ environ = NoResult
    /\ reqs = <<>>
    /\ upstream = <<>>

\* ------------------------------------------------------------------------
\* query_parser.py: dict helpers and the name groups of step 4
\* ------------------------------------------------------------------------
\* d.get(k, default)
Get(d, k, default) == IF k \in DOMAIN d THEN d[k] ELSE default

\* d[k] = v
Put(d, k, v) == (k :> v) @@ d

\* NAME_GROUPS with the ids of the 'any' names stored in the 'curr' list
NAME_GROUPS_AnyIntoCurr == <<
    [names |-> "competitor_names", ids |-> "competitor_parsed_list"],
    [names |-> "suggested_companies", ids |-> "competitor_suggested_list"],
    [names |-> "explicit_comp_names_curr", ids |-> "explicit_comp_id_list_curr"],
    [names |-> "explicit_comp_names_past", ids |-> "explicit_comp_id_list_past"],
    [names |-> "explicit_comp_names_any", ids |-> "explicit_comp_id_list_curr"] >>

\* the name groups of step 4, in the order parse_query looks them up, each
\* with the key of the result it fills
NAME_GROUPS == <<
    [names |-> "competitor_names", ids |-> "competitor_parsed_list"],
    [names |-> "suggested_companies", ids |-> "competitor_suggested_list"],
    [names |-> "explicit_comp_names_curr", ids |-> "explicit_comp_id_list_curr"],
    [names |-> "explicit_comp_names_past", ids |-> "explicit_comp_id_list_past"],
    [names |-> "explicit_comp_names_any", ids |-> "explicit_comp_id_list_any"] >>

\* ------------------------------------------------------------------------
\* lookup_many / lookup_title_many as a process
\* ------------------------------------------------------------------------
\* the coroutine of one term as gather first runs it: an empty query returns
\* at once; lookup POSTs and waits for the backend; lookup_title first waits
\* for the embedding
NewTask(q, ep) ==
    IF ~TruthyTerm(q) THEN [st |-> "done", res |-> EmptyLookupResult]
    ELSE IF ep = "title" THEN [st |-> "embedding", res |-> NoResult]
    ELSE [st |-> "pending", res |-> NoResult]

\* RequestsOf with the lookup of a repeated term answered from the lookup
\* of its first occurrence: no second POST
RECURSIVE RequestsOfDistinct(_, _, _)
RequestsOfDistinct(qs, lim, k) ==
    IF k > Len(qs) THEN <<>>
    ELSE IF TruthyTerm(qs[k]) /\ \A j \in 1..(k - 1) : qs[j] # qs[k]
         THEN <<LookupRequest(qs[k], lim)>> \o RequestsOfDistinct(qs, lim, k + 1)
         ELSE RequestsOfDistinct(qs, lim, k + 1)

\* the POSTs the lookup coroutines issue when gather starts them
RECURSIVE RequestsOf(_, _, _)
RequestsOf(qs, lim, k) ==
    IF k > Len(qs) THEN <<>>
    ELSE IF TruthyTerm(qs[k])
         THEN <<LookupRequest(qs[k], lim)>> \o RequestsOf(qs, lim, k + 1)
         ELSE RequestsOf(qs, lim, k + 1)

\* rows held by the finished tasks (bounded by MaxRows)
RECURSIVE RowsHeld(_, _)
RowsHeld(ts, k) ==
    IF k > Len(ts) THEN 0
    ELSE (IF ts[k].st = "done" /\ HasRows(ts[k].res) THEN Len(ts[k].res.rows) ELSE 0)
            + RowsHeld(ts, k + 1)

\* task i finishes now: is a coroutine of an earlier term still running
Overtakes(ts, i) == \E j \in 1..(i - 1) : ts[j].st \in {"pending", "embedding"}

\* CallBody without 'if not queries: return []': the empty list is handed
\* to the backend as one request
CallBodyNoEmptyCheck(ep, qs, lim, dd) ==
    /\ pc = "idle"
    /\ endpoint' = ep
    /\ queries' = qs
    /\ limit' = lim
    /\ dedupe' = dd
    /\ overtaken' = FALSE
    /\ pc' = "awaiting"
    /\ tasks' = [k \in 1..Len(qs) |-> NewTask(qs[k], ep)]
    /\ sent' = IF ep = "lookup" /\ qs # <<>> THEN RequestsOf(qs, lim, 1)
               ELSE <<LookupRequest("", lim)>>
    /\ UNCHANGED <<out, seen_ids>>

\* the body of lookup_many (ep = "lookup") and of lookup_title_many
\* (ep = "title") up to the await of asyncio.gather
CallBody(ep, qs, lim, dd) ==
    /\ pc = "idle"
    /\ endpoint' = ep
    /\ queries' = qs
    /\ limit' = lim
    /\ dedupe' = dd
    /\ overtaken' = FALSE
    /\ IF qs = <<>>
       THEN /\ pc' = "returned"
            /\ out' = <<>>
            /\ UNCHANGED <<tasks, sent, seen_ids>>
       ELSE /\ pc' = "awaiting"
            /\ tasks' = [k \in 1..Len(qs) |-> NewTask(qs[k], ep)]
            /\ sent' = IF ep = "lookup" THEN RequestsOf(qs, lim, 1) ELSE <<>>
            /\ UNCHANGED <<out, seen_ids>>

\* lookup_many(queries, key_id, key_secret, limit, size_weight, dedupe)
Call(qs, lim, dd) ==
    /\ ppc = "idle"
    /\ CallBody("lookup", qs, lim, dd)
    /\ UNCHANGED <<parseVars, auxVars>>

\* lookup_title_many(queries, key_id, key_secret, embed_fn, limit, dedupe)
CallTitle(qs, lim, dd) ==
    /\ ppc = "idle"
    /\ CallBody("title", qs, lim, dd)
    /\ UNCHANGED <<parseVars, auxVars>>

\* lookup_title: the embedding of task i arrives; the POST is sent
EmbedReturn(i) ==
    /\ i \in DOMAIN tasks
    /\ tasks[i].st = "embedding"
    /\ tasks' = [tasks EXCEPT ![i].st = "pending"]
    /\ sent' = Append(sent, LookupRequest(queries[i], limit))
    /\ UNCHANGED <<pc, endpoint, queries, limit, dedupe, overtaken, out, seen_ids>>
    /\ UNCHANGED <<parseVars, auxVars>>

\* lookup_title: the embedding of task i exceeds 120 s or embed_fn raises;
\* the coroutine returns an error dict and sends nothing
EmbedFail(i, e) ==
    /\ i \in DOMAIN tasks
    /\ tasks[i].st = "embedding"
    /\ tasks' = [tasks EXCEPT ![i] =
                    [st |-> "done", res |-> EmbeddingErrorResult(queries[i], e)]]
    /\ overtaken' = (overtaken \/ Overtakes(tasks, i))
    /\ UNCHANGED <<pc, endpoint, queries, limit, dedupe, sent, out, seen_ids>>
    /\ UNCHANGED <<parseVars, auxVars>>

\* what the backend answers to one POST: a status code and, for 200, the
\* 'data' rows of the JSON body; the answers possible while 'room' more rows
\* fit the batch (a response may be one row longer than the requested limit:
\* lookup cuts it)
ResponsesWithin(lim, room) ==
    {[status_code |-> HTTP_OK, data |-> d] :
        d \in SeqsUpTo(Rows, IF Max(RequestLimit(lim), 0) <= room
                             THEN Min(MaxRows, Max(RequestLimit(lim), 0) + 1)
                             ELSE room)}
        \cup {[status_code |-> s, data |-> <<>>] : s \in ErrorStatuses}

\* the bound on the rows of one batch
RowBound(ep) == IF ep = "title" THEN MaxTitleRows ELSE MaxRows

\* the backend answers the POST of task i: the coroutine returns a dict
LookupReturn(i) ==
    /\ i \in DOMAIN tasks
    /\ tasks[i].st = "pending"
    /\ \E resp \in ResponsesWithin(limit, RowBound(endpoint) - RowsHeld(tasks, 1)) :
          LET r == LookupResult(queries[i], limit, resp)
          IN /\ HasRows(r) => RowsHeld(tasks, 1) + Len(r.rows) <= RowBound(endpoint)
             /\ tasks' = [tasks EXCEPT ![i] = [st |-> "done", res |-> r]]
    /\ overtaken' = (overtaken \/ Overtakes(tasks, i))
    /\ UNCHANGED <<pc, endpoint, queries, limit, dedupe, sent, out, seen_ids>>
    /\ UNCHANGED <<parseVars, auxVars>>

\* the POST of task i times out or the connection fails: httpx raises and
\* neither lookup nor lookup_title has a handler around the POST, so the
\* coroutine ends with the exception
LookupRaise(i) ==
    /\ i \in DOMAIN tasks
    /\ tasks[i].st = "pending"
    /\ tasks' = [tasks EXCEPT ![i] = [st |-> "raised", res |-> NoResult]]
    /\ overtaken' = (overtaken \/ Overtakes(tasks, i))
    /\ UNCHANGED <<pc, endpoint, queries, limit, dedupe, sent, out, seen_ids>>
    /\ UNCHANGED <<parseVars, auxVars>>

\* GatheredResults handing over the results as they completed: the result
\* of a coroutine that overtook an earlier one comes first
GatheredAsCompleted(ts, ov) ==
    IF ov THEN [k \in DOMAIN ts |-> ts[Len(ts) + 1 - k].res]
    ELSE [k \in DOMAIN ts |-> ts[k].res]

\* 'results = await asyncio.gather(*tasks)': the list of the results in the
\* order of the awaitables, whether or not (ov) a coroutine overtook another
GatheredResults(ts, ov) == [k \in DOMAIN ts |-> ts[k].res]

\* GatherDone as asyncio.wait(..., return_when=FIRST_COMPLETED) would have
\* it: the await ends with the first coroutine that returns
GatherFirstCompleted(ts) == \E k \in DOMAIN ts : ts[k].st = "done"

\* 'await asyncio.gather(*tasks)' ends normally once every coroutine has
\* returned
GatherDone(ts) == \A k \in DOMAIN ts : ts[k].st = "done"

\* the ids that the lookup_many calls made before this one by the same
\* parse_query left in its result (none when lookup_many is called on its
\* own)
EmittedEarlier ==
    IF result = NoResult THEN {}
    ELSE UNION {{result[f][i] : i \in DOMAIN result[f]} :
                   f \in {NAME_GROUPS[g].ids : g \in DOMAIN NAME_GROUPS}
                            \cap DOMAIN result}

\* MergeBatch with seen_ids kept from call to call (a set of the module
\* instead of a local): the pass starts with the ids of the earlier calls
MergeBatchCarryOver(earlier, qs, rs, dd) ==
    IF dd
    THEN DedupLoop(qs, rs, 1, [out |-> <<>>, seen |-> earlier])
    ELSE [out |-> ZipResults(qs, rs), seen |-> {}]

\* the merge pass of one call: 'seen_ids = set()' is a local of the call,
\* so the ids emitted by earlier calls play no part
MergeBatch(earlier, qs, rs, dd) == MergeResults(qs, rs, dd)

\* asyncio.gather(*tasks) delivers the results in task order; the merge
\* pass and the return follow without another await
GatherReturn ==
    /\ pc = "awaiting"
    /\ GatherDone(tasks)
    /\ LET m == MergeBatch(EmittedEarlier, queries,
                           GatheredResults(tasks, overtaken), dedupe)
       IN /\ out' = m.out
          /\ seen_ids' = m.seen
    /\ pc' = "returned"
    /\ UNCHANGED <<endpoint, queries, limit, dedupe, tasks, sent, overtaken>>
    /\ UNCHANGED <<parseVars, auxVars>>

\* asyncio.gather without return_exceptions re-raises the first exception
\* of a task in the awaiting coroutine; the other tasks are not cancelled
GatherRaise ==
    /\ pc = "awaiting"
    /\ \E k \in DOMAIN tasks : tasks[k].st = "raised"
    /\ pc' = "raised"
    /\ UNCHANGED <<endpoint, queries, limit, dedupe, tasks, sent, overtaken, out,
                   seen_ids>>
    /\ UNCHANGED <<parseVars, auxVars>>

\* the steps of the lookup coroutines and of gather
LookupSteps ==
    \/ \E i \in DOMAIN tasks : LookupReturn(i)
    \/ \E i \in DOMAIN tasks : LookupRaise(i)
    \/ GatherReturn
    \/ GatherRaise

\* the steps only lookup_title coroutines take
EmbedSteps ==
    \/ \E i \in DOMAIN tasks : EmbedReturn(i)
    \/ \E i \in DOMAIN tasks, e \in EmbeddingErrors : EmbedFail(i, e)

\* lookup_many called on its own
Init == BatchInit /\ ParseIdle /\ CallIdle /\ ServerIdle

Next ==
    \/ \E qs \in TermLists, lim \in Limits, dd \in BOOLEAN : Call(qs, lim, dd)
    \/ LookupSteps

Spec == Init /\ [][Next]_vars

\* the progress the event loop and the backend give a pending call: the POST
\* of every lookup coroutine is answered or fails (httpx timeout=30.0), and
\* the coroutine awaiting asyncio.gather is resumed once gather has a result
\* or an exception for it
Fairness ==
    /\ \A i \in 1..MaxTerms : WF_vars(LookupReturn(i) \/ LookupRaise(i))
    /\ WF_vars(GatherReturn)
    /\ WF_vars(GatherRaise)

\* lookup_many called on its own, every backend call returning or failing
SpecLive == Init /\ [][Next]_vars /\ Fairness

\* lookup_title_many called on its own
NextTitle ==
    \/ \E qs \in TermLists, lim \in Limits, dd \in BOOLEAN : CallTitle(qs, lim, dd)
    \/ EmbedSteps
    \/ LookupSteps

SpecTitle == Init /\ [][NextTitle]_vars

\* lookup_many(queries, key_id, key_secret) or
\* lookup_title_many(queries, key_id, key_secret, embed_fn): either batch
\* function called with the defaults of limit and dedupe
NextBatch ==
    \/ \E qs \in TermLists : Call(qs, DEFAULT_LIMIT, DEFAULT_DEDUPE)
    \/ \E qs \in TermLists : CallTitle(qs, DEFAULT_LIMIT, TITLE_DEFAULT_DEDUPE)
    \/ EmbedSteps
    \/ LookupSteps

SpecBatch == Init /\ [][NextBatch]_vars

\* ------------------------------------------------------------------------
\* query_parser.py: parse_query
\* ------------------------------------------------------------------------
FILTER_FIELDS == {"filt_lead_type", "filt_comp_loc_cc2", "filt_comp_loc_city",
                  "filt_comp_loc_region", "filt_comp_hc", "filt_emp_title",
                  "filt_emp_cc2_list"}

\* the intents the extraction can produce (the JSON object of the completion)
Summary == ("industry_summary" :> "software companies")
IntentList == <<
    Summary,
    Summary @@ ("competitor_names" :> <<"apple", "orange">>),
    Summary @@ ("suggested_companies" :> <<"apple">>)
            @@ ("explicit_comp_names_past" :> <<"apple", "orange">>)
            @@ ("filt_lead_type" :> <<"employee">>),
    Summary @@ ("explicit_comp_names_curr" :> <<"apple">>)
            @@ ("explicit_comp_names_any" :> <<"apple">>)
            @@ ("filt_comp_loc_cc2" :> <<"es">>),
    Summary @@ ("explicit_comp_names_curr" :> <<"meta">>)
            @@ ("filt_lead_type" :> <<"company", "employee">>)
            @@ ("filt_emp_title" :> <<"ceo", "cto">>),
    Summary @@ ("filt_lead_type" :> <<"company">>)
            @@ ("filt_comp_hc" :> <<-1, -1>>)
            @@ ("filt_emp_title" :> <<"ceo">>),
    ("filt_lead_type" :> <<"employee">>)
            @@ ("competitor_names" :> <<>>)
            @@ ("filt_emp_title" :> <<"ceo">>)
            @@ ("profile_industry_experience" :> "fintech")
            @@ ("headline_skills_explicit" :> <<"python">>)
            @@ ("headline_skills_explicit_expanded" :> <<>>) >>

\* response.choices[0].message.content: a JSON object or text json.loads
\* rejects
Contents ==
    {[json |-> TRUE, intent |-> n, text |-> "{...}"] : n \in DOMAIN IntentList}
        \cup {[json |-> FALSE, intent |-> 0, text |-> "Sorry, I can"]}

\* ExtractionError without the raw output
ExtractionErrorNoRaw(c) == [error |-> "Failed to parse LLM response"]

\* the dict parse_query returns on json.JSONDecodeError
ExtractionError(c) ==
    [error |-> "Failed to parse LLM response", raw |-> c.text]

\* step 3: the result built from the parsed fields
BaseResult(p) ==
    [industry_summary |-> Get(p, "industry_summary", ""),
     competitor_parsed_list |-> <<>>,
     competitor_suggested_list |-> <<>>,
     explicit_comp_id_list_curr |-> <<>>,
     explicit_comp_id_list_past |-> <<>>,
     explicit_comp_id_list_any |-> <<>>]

\* 'if field in parsed: result[field] = parsed[field]'
FilterFields(p) == [f \in DOMAIN p \cap FILTER_FIELDS |-> p[f]]

\* 'if parsed.get(f): result[f] = parsed[f]' for the profile/headline fields
ProfileFields(p) ==
    [f \in {g \in DOMAIN p :
              \/ g = "profile_industry_experience" /\ p[g] # ""
              \/ g \in {"headline_skills_explicit",
                        "headline_skills_explicit_expanded"} /\ p[g] # <<>>}
        |-> p[f]]

\* the else branch of step 4: the names are returned when no lookup function
\* is given
NameFields(p) ==
    [k \in {NAME_GROUPS[g].names : g \in DOMAIN NAME_GROUPS} |-> Get(p, k, <<>>)]

\* the result before any lookup returns
BuildResult(p, has_lookup) ==
    IF has_lookup
    THEN ProfileFields(p) @@ FilterFields(p) @@ BaseResult(p)
    ELSE NameFields(p) @@ ProfileFields(p) @@ FilterFields(p) @@ BaseResult(p)

\* the next name group at or after g whose name list is non-empty
\* (Len(NAME_GROUPS) + 1 when there is none)
RECURSIVE NextStage(_, _)
NextStage(p, g) ==
    IF g > Len(NAME_GROUPS) THEN g
    ELSE IF Get(p, NAME_GROUPS[g].names, <<>>) # <<>> THEN g
    ELSE NextStage(p, g + 1)

\* rows of one item of a batch: item.get('result', {}).get('rows', [])
ItemRows(item) == Get(Get(item, "result", <<>>), "rows", <<>>)

\* _extract_comp_ids taking rows[-1][0]
RECURSIVE ExtractLastRowIds(_, _)
ExtractLastRowIds(batch, k) ==
    IF k > Len(batch) THEN <<>>
    ELSE LET rows == Get(Get(batch[k], "result", <<>>), "rows", <<>>)
         IN (IF rows # <<>> THEN <<rows[Len(rows)][1]>> ELSE <<>>)
                \o ExtractLastRowIds(batch, k + 1)

\* _extract_comp_ids appending a placeholder for an item without rows
RECURSIVE ExtractWithPlaceholder(_, _)
ExtractWithPlaceholder(batch, k) ==
    IF k > Len(batch) THEN <<>>
    ELSE LET rows == Get(Get(batch[k], "result", <<>>), "rows", <<>>)
         IN (IF rows # <<>> THEN <<rows[1][1]>> ELSE <<0>>)
                \o ExtractWithPlaceholder(batch, k + 1)

\* _extract_comp_ids: the first column of the first row of every item that
\* has rows
RECURSIVE _extract_comp_ids(_, _)
_extract_comp_ids(batch, k) ==
    IF k > Len(batch) THEN <<>>
    ELSE LET rows == ItemRows(batch[k])
         IN (IF rows # <<>> THEN <<rows[1][1]>> ELSE <<>>)
                \o _extract_comp_ids(batch, k + 1)

\* rows[0][0] raises IndexError when the first row is empty
ExtractRaises(batch) ==
    \E k \in DOMAIN batch :
        LET rows == ItemRows(batch[k]) IN rows # <<>> /\ rows[1] = <<>>

\* the extraction completion call of step 1
ExtractionCall == [kind |-> "extract", group |-> 0, term |-> 0]

\* a validation completion call for item k of the batch of name group g
ValidationCall(g, k) == [kind |-> "validate", group |-> g, term |-> k]

\* ValidationCalls sending VALIDATION_PROMPT for every item that has rows
RECURSIVE ValidateEveryMatch(_, _)
ValidateEveryMatch(g, batch) ==
    IF batch = <<>> THEN <<>>
    ELSE ValidateEveryMatch(g, SubSeq(batch, 1, Len(batch) - 1))
            \o (IF Get(Get(batch[Len(batch)], "result", <<>>), "rows", <<>>) # <<>>
                THEN <<ValidationCall(g, Len(batch))>> ELSE <<>>)

\* the completion calls parse_query makes while it resolves one batch:
\* VALIDATION_PROMPT is defined but never formatted or sent
ValidationCalls(g, batch) == <<>>

\* _extract_title_ids without the seen set
RECURSIVE ExtractTitleIdsNoDedup(_, _, _)
ExtractTitleIdsNoDedup(batch, k, st) ==
    IF k > Len(batch) THEN st.ids
    ELSE LET rows == Get(Get(batch[k], "result", <<>>), "rows", <<>>)
         IN IF rows # <<>>
            THEN ExtractTitleIdsNoDedup(batch, k + 1,
                     [ids |-> Append(st.ids, rows[1][1]), seen |-> st.seen])
            ELSE ExtractTitleIdsNoDedup(batch, k + 1, st)

\* _extract_title_ids: the top title_id of every item, without repeats
RECURSIVE _extract_title_ids(_, _, _)
_extract_title_ids(batch, k, st) ==
    IF k > Len(batch) THEN st.ids
    ELSE LET rows == ItemRows(batch[k])
         IN IF rows # <<>> /\ rows[1][1] \notin st.seen
            THEN _extract_title_ids(batch, k + 1,
                     [ids |-> Append(st.ids, rows[1][1]),
                      seen |-> st.seen \cup {rows[1][1]}])
            ELSE _extract_title_ids(batch, k + 1, st)

\* '"employee" in lead_type and emp_titles and lookup_title_many_fn'
WantsTitles(res, has_title_lookup) ==
    /\ \E k \in DOMAIN Get(res, "filt_lead_type", <<>>) :
           Get(res, "filt_lead_type", <<>>)[k] = "employee"
    /\ Get(res, "filt_emp_title", <<>>) # <<>>
    /\ has_title_lookup

ParseInit ==
    /\ ppc = "start"
    /\ lookup_many_fn \in BOOLEAN
    /\ lookup_title_many_fn \in BOOLEAN
    /\ completion_up = TRUE
    /\ content = NoResult
    /\ parsed = NoResult
    /\ result = NoResult
    /\ stage = 1
    /\ lookup_results = <<>>
    /\ completions = <<>>
    /\ lookups = <<>>

\* the frame of a finished lookup_many / lookup_title_many call is dropped
BatchReset ==
    /\ pc' = "idle"
    /\ endpoint' = "lookup"
    /\ queries' = <<>>
    /\ limit' = DEFAULT_LIMIT
    /\ dedupe' = TRUE
    /\ tasks' = <<>>
    /\ sent' = <<>>
    /\ overtaken' = FALSE
    /\ out' = <<>>
    /\ seen_ids' = {}

\* the CompletionProvider goes down: every completion call made from now on
\* fails
CompletionOutage ==
    /\ ppc \in {"start", "resolve", "titles"}
    /\ completion_up
    /\ completion_up' = FALSE
    /\ UNCHANGED <<ppc, lookup_many_fn, lookup_title_many_fn, content, parsed, result,
                   stage, lookup_results, completions, lookups>>
    /\ UNCHANGED <<batchVars, auxVars>>

\* step 1, client.chat.completions.create raises (timeout, connection or API
\* error): the call is not inside a try
PQ_CompletionRaises ==
    /\ ppc = "start"
    /\ completions' = Append(completions, ExtractionCall)
    /\ ppc' = "raised"
    /\ UNCHANGED <<lookup_many_fn, lookup_title_many_fn, completion_up, content, parsed,
                   result, stage, lookup_results, lookups>>
    /\ UNCHANGED <<batchVars, auxVars>>

\* steps 1-3: the completion returns content; json.loads; build the result
PQ_Extract(c) ==
    /\ ppc = "start"
    /\ ~completion_up => ~c.json
    /\ completions' = Append(completions, ExtractionCall)
    /\ content' = c
    /\ IF ~c.json
       THEN /\ result' = ExtractionError(c)
            /\ ppc' = "returned"
            /\ UNCHANGED <<parsed, stage>>
       ELSE /\ parsed' = IntentList[c.intent]
            /\ result' = BuildResult(parsed', lookup_many_fn)
            /\ stage' = IF lookup_many_fn THEN NextStage(parsed', 1)
                        ELSE Len(NAME_GROUPS) + 1
            /\ ppc' = IF stage' <= Len(NAME_GROUPS) THEN "resolve" ELSE "titles"
    /\ UNCHANGED <<lookup_many_fn, lookup_title_many_fn, completion_up,
                   lookup_results, lookups>>
    /\ UNCHANGED <<batchVars, auxVars>>

\* step 4: lookup_many_fn(names) for the next non-empty name group; the
\* local lookup_results of the group before is not read again
PQ_CallLookup ==
    /\ ppc = "resolve"
    /\ stage <= Len(NAME_GROUPS)
    /\ CallBody("lookup", parsed[NAME_GROUPS[stage].names], DEFAULT_LIMIT,
                DEFAULT_DEDUPE)
    /\ ppc' = "await_lookup"
    /\ lookup_results' = <<>>
    /\ lookups' = Append(lookups,
                    [fn |-> "lookup_many_fn", group |-> stage,
                     completion_up |-> completion_up])
    /\ UNCHANGED <<lookup_many_fn, lookup_title_many_fn, completion_up, content, parsed,
                   result, stage, completions>>
    /\ UNCHANGED auxVars

\* lookup_many_fn returned: _extract_comp_ids fills the group's id list
PQ_TakeLookup ==
    /\ ppc = "await_lookup"
    /\ pc = "returned"
    /\ lookup_results' = out
    /\ IF ExtractRaises(out)
       THEN /\ ppc' = "raised"
            /\ UNCHANGED <<result, stage, completions>>
       ELSE /\ result' = Put(result, NAME_GROUPS[stage].ids, _extract_comp_ids(out, 1))
            /\ completions' = completions \o ValidationCalls(stage, out)
            /\ stage' = NextStage(parsed, stage + 1)
            /\ ppc' = IF stage' <= Len(NAME_GROUPS) THEN "resolve" ELSE "titles"
    /\ BatchReset
    /\ UNCHANGED <<lookup_many_fn, lookup_title_many_fn, completion_up, content, parsed,
                   lookups>>
    /\ UNCHANGED auxVars

\* lookup_many_fn raised: parse_query has no handler
PQ_LookupRaised ==
    /\ ppc \in {"await_lookup", "await_titles"}
    /\ pc = "raised"
    /\ ppc' = "raised"
    /\ UNCHANGED <<lookup_many_fn, lookup_title_many_fn, completion_up, content, parsed,
                   result, stage, lookup_results, completions, lookups>>
    /\ UNCHANGED <<batchVars, auxVars>>

\* step 5: lookup_title_many_fn(emp_titles); the local lookup_results is
\* not read again
PQ_CallTitles ==
    /\ ppc = "titles"
    /\ WantsTitles(result, lookup_title_many_fn)
    /\ CallBody("title", result["filt_emp_title"], DEFAULT_LIMIT,
                TITLE_DEFAULT_DEDUPE)
    /\ ppc' = "await_titles"
    /\ lookup_results' = <<>>
    /\ lookups' = Append(lookups,
                    [fn |-> "lookup_title_many_fn", group |-> 0,
                     completion_up |-> completion_up])
    /\ UNCHANGED <<lookup_many_fn, lookup_title_many_fn, completion_up, content,
                   parsed, result, stage, completions>>
    /\ UNCHANGED auxVars

\* step 5 skipped: return result
PQ_Return ==
    /\ ppc = "titles"
    /\ ~WantsTitles(result, lookup_title_many_fn)
    /\ ppc' = "returned"
    /\ UNCHANGED <<lookup_many_fn, lookup_title_many_fn, completion_up, content, parsed,
                   result, stage, lookup_results, completions, lookups>>
    /\ UNCHANGED <<batchVars, auxVars>>

\* lookup_title_many_fn returned: _extract_title_ids, return result
PQ_TakeTitles ==
    /\ ppc = "await_titles"
    /\ pc = "returned"
    /\ IF ExtractRaises(out)
       THEN /\ ppc' = "raised"
            /\ UNCHANGED result
       ELSE /\ result' = Put(result, "filt_emp_title_ids",
                             _extract_title_ids(out, 1, [ids |-> <<>>, seen |-> {}]))
            /\ ppc' = "returned"
    /\ BatchReset
    /\ UNCHANGED <<lookup_many_fn, lookup_title_many_fn, completion_up, content, parsed,
                   stage, lookup_results, completions, lookups>>
    /\ UNCHANGED auxVars

InitParse == BatchInit /\ ParseInit /\ CallIdle /\ ServerIdle

NextParse ==
    \/ CompletionOutage
    \/ PQ_CompletionRaises
    \/ \E c \in Contents : PQ_Extract(c)
    \/ PQ_CallLookup
    \/ PQ_TakeLookup
    \/ PQ_LookupRaised
    \/ PQ_CallTitles
    \/ PQ_Return
    \/ PQ_TakeTitles
    \/ EmbedSteps
    \/ LookupSteps

SpecParse == InitParse /\ [][NextParse]_vars

\* ------------------------------------------------------------------------
\* lookups.py, titles.py, lookalikes.py: one call of a lookup function
\* ------------------------------------------------------------------------
LOOKALIKE_MAX_LIMIT == 1000
\* 'max_log_hc': 6.0
MAX_LOG_HC == 6

\* the functions that embed the query before they POST
EMBEDDING_FUNCTIONS == {"lookup_title", "lookalike_from_term"}

\* the limits a caller passes
CallLimits == {-1, 0, 2, 100, 5000}

\* how many rows the 'data' of a 200 response holds; the backend is not
\* trusted to honour the limit of the request
BackendRowCounts == {0, 3, 102, 1002}

\* a response body of n rows, each with its own primary id
RowsN(n) == [k \in 1..n |-> <<k>>]

\* (clickhouse_key_id, clickhouse_key_secret) of a caller
Credentials == {[key_id |-> "id_a", key_secret |-> "secret_a"],
                [key_id |-> "id_b", key_secret |-> "secret_b"]}

\* Optional[...] arguments: <<>> is None, <<v>> is the value v
FilterHcs == {<<>>, <<0>>, <<50>>}
FilterCc2s == {<<>>, <<<<>>>>, <<<<"es">>>>}

\* size_weight in hundredths
SizeWeights == {0, 20}

\* the argument lists of the calls
CallArgs ==
    [fn : {"lookup", "lookup_title", "lookalike_from_term"},
     query : {"", "apple"}, company_ids : {<<>>},
     filter_hc : {<<>>}, filter_cc2 : {<<>>},
     size_weight : SizeWeights, limit : CallLimits, creds : Credentials]
    \cup
    [fn : {"lookalike_from_ids"},
     query : {""}, company_ids : {<<>>, <<1, 2>>},
     filter_hc : FilterHcs, filter_cc2 : FilterCc2s,
     size_weight : SizeWeights, limit : CallLimits, creds : Credentials]

\* 'if not query' / 'if not company_ids': the early return
ArgsEmpty(a) ==
    IF a.fn = "lookalike_from_ids" THEN a.company_ids = <<>> ELSE ~TruthyTerm(a.query)

\* QueryVariables with the filters added only when the caller gave them
QueryVariablesOptionalFilters(a) ==
    IF a.fn = "lookup"
    THEN [query |-> a.query, max_log_hc |-> MAX_LOG_HC,
          size_weight |-> a.size_weight,
          limit |-> Min(a.limit, LOOKUP_MAX_LIMIT)]
    ELSE IF a.fn = "lookup_title"
    THEN [query |-> <<"embedding", a.query>>,
          limit |-> Min(a.limit, LOOKUP_MAX_LIMIT)]
    ELSE IF a.fn = "lookalike_from_term"
    THEN [query |-> <<"embedding", a.query>>, max_log_hc |-> MAX_LOG_HC,
          size_weight |-> a.size_weight,
          limit |-> Min(a.limit, LOOKALIKE_MAX_LIMIT)]
    ELSE LET base == [company_ids |-> a.company_ids, max_log_hc |-> MAX_LOG_HC,
                      size_weight |-> a.size_weight,
                      limit |-> Min(a.limit, LOOKALIKE_MAX_LIMIT)]
             hc == IF a.filter_hc # <<>>
                   THEN Put(base, "filter_hc", a.filter_hc[1]) ELSE base
         IN IF a.filter_cc2 # <<>> /\ a.filter_cc2[1] # <<>>
            THEN Put(hc, "filter_cc2", a.filter_cc2[1]) ELSE hc

\* the queryVariables of the POST
QueryVariables(a) ==
    IF a.fn = "lookup"
    THEN [query |-> a.query, max_log_hc |-> MAX_LOG_HC,
          size_weight |-> a.size_weight,
          limit |-> Min(a.limit, LOOKUP_MAX_LIMIT)]
    ELSE IF a.fn = "lookup_title"
    THEN [query |-> <<"embedding", a.query>>,
          limit |-> Min(a.limit, LOOKUP_MAX_LIMIT)]
    ELSE IF a.fn = "lookalike_from_term"
    THEN [query |-> <<"embedding", a.query>>, max_log_hc |-> MAX_LOG_HC,
          size_weight |-> a.size_weight,
          limit |-> Min(a.limit, LOOKALIKE_MAX_LIMIT)]
    ELSE [company_ids |-> a.company_ids, max_log_hc |-> MAX_LOG_HC,
          size_weight |-> a.size_weight,
          filter_hc |-> IF a.filter_hc # <<>> THEN a.filter_hc[1] ELSE 0,
          filter_cc2 |-> IF a.filter_cc2 # <<>> /\ a.filter_cc2[1] # <<>>
                         THEN a.filter_cc2[1] ELSE <<>>,
          limit |-> Min(a.limit, LOOKALIKE_MAX_LIMIT)]

\* client.post(..., auth=(clickhouse_key_id, clickhouse_key_secret), json=...)
BackendRequest(a) ==
    [endpoint |-> a.fn,
     auth |-> <<a.creds.key_id, a.creds.key_secret>>,
     queryVariables |-> QueryVariables(a)]

\* what lookalike_from_ids and lookalike_from_term return once the backend
\* has answered resp
LookalikeResult(a, resp) ==
    IF resp.status_code = HTTP_OK
    THEN [columns |-> COLUMNS,
          rows |-> PySlice(resp.data, Min(a.limit, LOOKALIKE_MAX_LIMIT))]
    ELSE IF a.fn = "lookalike_from_ids"
    THEN [company_ids |-> a.company_ids,
          error |-> <<"Status", resp.status_code>>,
          detail |-> "response.text[:500]",
          query_variables |-> QueryVariables(a)]
    ELSE [query |-> a.query,
          error |-> <<"Status", resp.status_code>>,
          detail |-> "response.text[:500]"]

\* what the call returns once the backend has answered resp
CallResult(a, resp) ==
    IF a.fn \in {"lookup", "lookup_title"}
    THEN LookupResult(a.query, a.limit, resp)
    ELSE LookalikeResult(a, resp)

\* the 'error' of the dict returned for each way the embedding fails:
\* asyncio.TimeoutError after 120 s, or any Exception of embed_fn
EmbeddingError(outcome) ==
    IF outcome = "timeout" THEN "Embedding timeout" ELSE "Embedding failed"

\* TermEmbeddingError without the 'query' key
TermEmbeddingErrorNoQuery(q, outcome) ==
    [error |-> <<EmbeddingError(outcome)>>, detail |-> outcome]

\* the dict lookalike_from_term returns from its except clauses
TermEmbeddingError(q, outcome) ==
    [query |-> q, error |-> <<EmbeddingError(outcome)>>, detail |-> outcome]

\* the dict the call returns when its embedding fails
EmbeddingFailure(a, outcome) ==
    IF a.fn = "lookalike_from_term"
    THEN TermEmbeddingError(a.query, outcome)
    ELSE EmbeddingErrorResult(a.query, EmbeddingError(outcome))

\* the answers of the backend to one POST
BackendResponses ==
    {[status_code |-> HTTP_OK, data |-> RowsN(n)] : n \in BackendRowCounts}
        \cup {[status_code |-> c, data |-> <<>>] : c \in ErrorStatuses}

\* the function is called: the early return, or the embedding starts, or the
\* POST is sent
CallFn(a) ==
    /\ cpc = "idle"
    /\ args' = a
    /\ IF ArgsEmpty(a)
       THEN /\ cpc' = "returned"
            /\ retval' = EmptyLookupResult
            /\ UNCHANGED <<embed, request>>
       ELSE IF a.fn \in EMBEDDING_FUNCTIONS
       THEN /\ cpc' = "embedding"
            /\ embed' = "running"
            /\ UNCHANGED <<request, retval>>
       ELSE /\ cpc' = "pending"
            /\ request' = <<BackendRequest(a)>>
            /\ UNCHANGED <<embed, retval>>
    /\ UNCHANGED <<batchVars, parseVars, serverVars>>

\* embed_fn returns within 120 s: the POST is sent
FnEmbedReturn ==
    /\ cpc = "embedding"
    /\ embed' = "ok"
    /\ cpc' = "pending"
    /\ request' = <<BackendRequest(args)>>
    /\ UNCHANGED <<args, retval>>
    /\ UNCHANGED <<batchVars, parseVars, serverVars>>

\* wait_for gives up after 120 s, or embed_fn raises: the except clauses
\* return an error dict
FnEmbedFail(outcome) ==
    /\ cpc = "embedding"
    /\ embed' = outcome
    /\ cpc' = "returned"
    /\ retval' = EmbeddingFailure(args, outcome)
    /\ UNCHANGED <<args, request>>
    /\ UNCHANGED <<batchVars, parseVars, serverVars>>

\* the backend answers the POST
FnRespond(resp) ==
    /\ cpc = "pending"
    /\ cpc' = "returned"
    /\ retval' = CallResult(args, resp)
    /\ UNCHANGED <<args, embed, request>>
    /\ UNCHANGED <<batchVars, parseVars, serverVars>>

\* the POST times out or the connection fails: httpx raises, no handler
FnRaise ==
    /\ cpc = "pending"
    /\ cpc' = "raised"
    /\ UNCHANGED <<args, embed, request, retval>>
    /\ UNCHANGED <<batchVars, parseVars, serverVars>>

NextCall ==
    \/ \E a \in CallArgs : CallFn(a)
    \/ FnEmbedReturn
    \/ \E outcome \in {"timeout", "raised"} : FnEmbedFail(outcome)
    \/ \E resp \in BackendResponses : FnRespond(resp)
    \/ FnRaise

\* one of the four lookup functions called on its own
SpecCall == Init /\ [][NextCall]_vars

\* ------------------------------------------------------------------------
\* api/index.py: handler.do_POST; companyprospect_mcp_v01.py: fastapi_app
\* ------------------------------------------------------------------------
\* os.environ: nothing set, or the secrets of the deployment ('' stands for
\* an unset FALLBACK_API_KEY, os.environ.get returning None)
Environs ==
    {[FALLBACK_API_KEY |-> "", key_id |-> "NOT_FOUND", key_secret |-> "NOT_FOUND"],
     [FALLBACK_API_KEY |-> "env_key", key_id |-> "env_id", key_secret |-> "env_secret"]}

\* the tools tools/call dispatches on; any other name is answered with
\* error -32601
TOOLS == {"ping", "lookup", "lookup_many", "embed_many", "lookup_title",
          "lookup_title_many", "lookalike_from_term", "lookalike_from_ids",
          "parse_query"}

\* a request without any credentials: a tools/call of lookup POSTed to '/'
\* (path is self.path.strip('/').split('/'), query string included)
BlankRequest ==
    [layer |-> "handler", method |-> "tools/call", tool |-> "lookup",
     path |-> <<"">>,
     has_query |-> FALSE, query_api_key |-> "",
     referer |-> <<>>, x_api_key |-> "", bearer |-> "",
     params_api_key |-> "", creds |-> <<>>]

\* the requests that arrive: at the MCP handler with the API key in one of
\* the places do_POST reads, at an endpoint of fastapi_app, or as a call of
\* api_modules.lookup with (clickhouse_key_id, clickhouse_key_secret)
RequestList == <<
    BlankRequest,
    [BlankRequest EXCEPT !.method = "tools/list"],
    [BlankRequest EXCEPT !.tool = "parse_query"],
    [BlankRequest EXCEPT !.tool = "no_such_tool"],
    [BlankRequest EXCEPT !.tool = "no_such_tool", !.x_api_key = "key_a"],
    [BlankRequest EXCEPT !.path = <<"key", "key_a">>],
    [BlankRequest EXCEPT !.path = <<"key_b", "mcp">>],
    [BlankRequest EXCEPT !.path = <<"?api_key=key_a">>, !.has_query = TRUE,
                         !.query_api_key = "key_a"],
    [BlankRequest EXCEPT !.path = <<"key", "", "?api_key=key_a">>,
                         !.has_query = TRUE, !.query_api_key = "key_a"],
    [BlankRequest EXCEPT !.referer = <<[path |-> <<"key_b">>, api_key |-> ""]>>],
    [BlankRequest EXCEPT !.referer = <<[path |-> <<"">>, api_key |-> "key_a"]>>],
    [BlankRequest EXCEPT !.x_api_key = "key_b"],
    [BlankRequest EXCEPT !.bearer = "key_a"],
    [BlankRequest EXCEPT !.bearer = "no_token"],
    [BlankRequest EXCEPT !.params_api_key = "key_b"],
    [BlankRequest EXCEPT !.path = <<"key", "key_a">>, !.x_api_key = "key_b"],
    [BlankRequest EXCEPT !.layer = "fastapi_app", !.path = <<"v01", "lookup">>,
                         !.x_api_key = "key_a"],
    [BlankRequest EXCEPT !.layer = "api_modules", !.creds = <<"id_a", "secret_a">>],
    [BlankRequest EXCEPT !.layer = "api_modules", !.creds = <<"id_b", "secret_b">>] >>

\* handler.extract_api_key_from_path
extract_api_key_from_path(parts) ==
    IF Len(parts) >= 2 /\ parts[1] = "key" THEN parts[2]
    ELSE IF Len(parts) >= 1 THEN parts[1]
    ELSE ""

\* the Referer branch of do_POST: the key in the referer's path, else its
\* api_key parameter
RefererApiKey(req) ==
    IF req.referer = <<>> THEN ""
    ELSE IF extract_api_key_from_path(req.referer[1].path) # ""
         THEN extract_api_key_from_path(req.referer[1].path)
         ELSE req.referer[1].api_key

\* 'Bearer <token>' other than 'Bearer no_token'
BearerApiKey(req) == IF req.bearer # "no_token" THEN req.bearer ELSE ""

\* the sources do_POST reads, in its order; each is read only 'if not api_key'
ApiKeySources(req, env) == <<
    [key |-> extract_api_key_from_path(req.path), source |-> "request"],
    [key |-> IF req.has_query THEN req.query_api_key ELSE "", source |-> "request"],
    [key |-> RefererApiKey(req), source |-> "request"],
    [key |-> req.x_api_key, source |-> "request"],
    [key |-> BearerApiKey(req), source |-> "request"],
    [key |-> req.params_api_key, source |-> "request"],
    [key |-> env.FALLBACK_API_KEY, source |-> "environ"] >>

\* the api_key do_POST ends with and where it was read (key '' when none)
ResolveApiKey(req, env) ==
    LET srcs == ApiKeySources(req, env)
        found == {i \in DOMAIN srcs : srcs[i].key # ""}
    IN IF found = {} THEN [key |-> "", source |-> "none"]
       ELSE srcs[CHOOSE i \in found : \A j \in found : i <= j]

\* _check_api_key
AuthenticationRequired == [error |-> "Authentication required"]

\* the answer to a request that leads to no call upstream: the tool list,
\* the dict of _check_api_key as the result of a tool, or error -32601 for
\* a name that is no tool
LocalResponse(req) ==
    IF req.method # "tools/call" THEN [result |-> "tools"]
    ELSE IF req.tool \in TOOLS THEN AuthenticationRequired
    ELSE [rpc_error |-> "Tool not found"]

\* the call a request makes upstream: the handler calls the API with the
\* resolved key in X-Api-Key; fastapi_app queries the backend with the
\* credentials it read from os.environ when it started; api_modules.lookup
\* queries the backend with the credentials it was called with
UpstreamCall(rid, req, env) ==
    IF req.layer = "handler"
    THEN [rid |-> rid, auth |-> <<ResolveApiKey(req, env).key>>,
          source |-> ResolveApiKey(req, env).source]
    ELSE IF req.layer = "fastapi_app"
    THEN [rid |-> rid, auth |-> <<env.key_id, env.key_secret>>, source |-> "environ"]
    ELSE [rid |-> rid, auth |-> req.creds, source |-> "request"]

\* CallsUpstream without _check_api_key: the tool calls the API whether or
\* not a key was found
CallsUpstreamUnchecked(req, env) ==
    IF req.layer = "handler"
    THEN req.method = "tools/call" /\ req.tool \in TOOLS
    ELSE TRUE

\* does the request lead to a call upstream: every tool calls the API
\* through call_companyprospect_api_get / _post, which return the dict of
\* _check_api_key instead when the key is falsy
CallsUpstream(req, env) ==
    IF req.layer = "handler"
    THEN req.method = "tools/call" /\ req.tool \in TOOLS
            /\ ResolveApiKey(req, env).key # ""
    ELSE TRUE

ServerInit ==
    /\ environ \in Environs
    /\ reqs = <<>>
    /\ upstream = <<>>

\* a request arrives
Receive(n) ==
    /\ Len(reqs) < MaxRequests
    /\ reqs' = Append(reqs, [req |-> RequestList[n], st |-> "received",
                             response |-> NoResult])
    /\ UNCHANGED <<environ, upstream>>
    /\ UNCHANGED <<batchVars, parseVars, callVars>>

\* the request is handled up to its call upstream, or answered without one
Handle(r) ==
    /\ r \in DOMAIN reqs
    /\ reqs[r].st = "received"
    /\ IF CallsUpstream(reqs[r].req, environ)
       THEN /\ upstream' = Append(upstream, UpstreamCall(r, reqs[r].req, environ))
            /\ reqs' = [reqs EXCEPT ![r].st = "called"]
       ELSE /\ reqs' = [reqs EXCEPT ![r].st = "done",
                                    ![r].response = LocalResponse(reqs[r].req)]
            /\ UNCHANGED upstream
    /\ UNCHANGED environ
    /\ UNCHANGED <<batchVars, parseVars, callVars>>

\* the call upstream returns and the request is answered
Finish(r) ==
    /\ r \in DOMAIN reqs
    /\ reqs[r].st = "called"
    /\ reqs' = [reqs EXCEPT ![r].st = "done", ![r].response = [result |-> "json"]]
    /\ UNCHANGED <<environ, upstream>>
    /\ UNCHANGED <<batchVars, parseVars, callVars>>

InitServer == BatchInit /\ ParseIdle /\ CallIdle /\ ServerInit

NextServer ==
    \/ \E n \in DOMAIN RequestList : Receive(n)
    \/ \E r \in DOMAIN reqs : Handle(r)
    \/ \E r \in DOMAIN reqs : Finish(r)

SpecServer == InitServer /\ [][NextServer]_vars

\* ========================================================================
\* Properties
\* ========================================================================
\* primary ids of the rows of a lookup result (none for an error entry)
ResultIds(r) ==
    IF HasRows(r)
    THEN {r.rows[j][1] : j \in {i \in DOMAIN r.rows : r.rows[i] # <<>>}}
    ELSE {}

\* the first task, in input order, whose response holds primary id x
EarliestWith(x) ==
    CHOOSE k \in DOMAIN tasks :
        /\ x \in ResultIds(tasks[k].res)
        /\ \A j \in 1..(k - 1) : x \notin ResultIds(tasks[j].res)

\* the rows of s are rows of t, in t's order
RECURSIVE IsSubSeq(_, _)
IsSubSeq(sq, t) ==
    IF sq = <<>> THEN TRUE
    ELSE IF t = <<>> THEN FALSE
    ELSE IF Head(sq) = Head(t) THEN IsSubSeq(Tail(sq), Tail(t))
    ELSE IsSubSeq(sq, Tail(t))

\* C1: whenever lookup_many has returned, its output has one entry per input
\* term, the i-th entry names the i-th term and carries the i-th lookup's
\* result (all its rows, or with dedupe a selection of them), whatever the
\* order in which the lookups completed.
C1_OutputFollowsInputOrder ==
    pc = "returned" =>
        /\ Len(out) = Len(queries)
        /\ \A i \in DOMAIN out :
            /\ out[i].query = queries[i]
            /\ HasRows(out[i].result) = HasRows(tasks[i].res)
            /\ IF HasRows(out[i].result)
               THEN IsSubSeq(out[i].result.rows, tasks[i].res.rows)
               ELSE out[i].result = tasks[i].res

\* a batch of two different terms returned after the lookup of the second
\* term had finished before the lookup of the first
C1_Witness ==
    /\ pc = "returned"
    /\ overtaken
    /\ Len(out) = 2
    /\ queries[1] # queries[2]
    /\ out[1].query = queries[1]
    /\ out[2].query = queries[2]

\* C2: in the merged output (dedupe on) a primary id appears under no term
\* but the earliest term, in input order, whose lookup returned it, and a
\* (truthy) primary id that some lookup returned does appear under that
\* earliest term.
C2_FirstOccurrenceWins ==
    (pc = "returned" /\ dedupe) =>
        \A x \in Ids :
            /\ \A k \in DOMAIN out :
                  x \in ResultIds(out[k].result) => k = EarliestWith(x)
            /\ (x # 0 /\ \E k \in DOMAIN tasks : x \in ResultIds(tasks[k].res))
                  => x \in ResultIds(out[EarliestWith(x)].result)

\* two terms whose top hit is the same id: the id is attributed to the first
\* term and absent from the second
C2_Witness ==
    /\ pc = "returned" /\ dedupe
    /\ Len(out) = 2
    /\ HasRows(tasks[1].res) /\ HasRows(tasks[2].res)
    /\ tasks[1].res.rows # <<>> /\ tasks[2].res.rows # <<>>
    /\ tasks[1].res.rows[1] = tasks[2].res.rows[1]
    /\ tasks[1].res.rows[1] # <<>>
    /\ tasks[1].res.rows[1][1] \in ResultIds(out[1].result)
    /\ tasks[1].res.rows[1][1] \notin ResultIds(out[2].result)

\* all rows of a batch, entry after entry
RECURSIVE AllRows(_, _)
AllRows(batch, k) ==
    IF k > Len(batch) THEN <<>>
    ELSE (IF HasRows(batch[k].result) THEN batch[k].result.rows ELSE <<>>)
            \o AllRows(batch, k + 1)

\* C3: with dedupe on, no two rows of the returned batch, of the same entry
\* or of different entries, carry the same primary id, and every row carries
\* one.
C3_IdsUniqueInBatch ==
    (pc = "returned" /\ dedupe) =>
        LET rows == AllRows(out, 1)
        IN /\ \A i \in DOMAIN rows : rows[i] # <<>>
           /\ \A i, j \in DOMAIN rows : i # j => rows[i][1] # rows[j][1]

\* the response of one term lists the same id twice; the batch holds it once
C3_Witness ==
    /\ pc = "returned" /\ dedupe
    /\ \E k \in DOMAIN tasks :
        /\ HasRows(tasks[k].res)
        /\ Len(tasks[k].res.rows) >= 2
        /\ tasks[k].res.rows[1] = tasks[k].res.rows[2]
        /\ tasks[k].res.rows[1] # <<>>
        /\ tasks[k].res.rows[1][1] # 0
        /\ Len(out[k].result.rows) = 1

\* C4 (as claimed): a failed lookup (non-2xx status, timeout, network error)
\* never aborts the batch: lookup_many never ends with an exception, and the
\* batch it returns has one entry per term.
C4_FailureNeverAbortsBatch ==
    /\ pc # "raised"
    /\ pc = "returned" => Len(out) = Len(queries)

\* the extraction returned text that json.loads rejects
InvalidJson == content # NoResult /\ ~content.json

\* C5: when the extraction output is not valid JSON, parse_query has returned
\* exactly the error and the raw output - no intent field, no id list - after
\* a single completion call and without any entity or title lookup.
C5_InvalidJsonIsTerminal ==
    InvalidJson =>
        /\ ppc = "returned"
        /\ DOMAIN result = {"error", "raw"}
        /\ result["raw"] = content.text
        /\ completions = <<ExtractionCall>>
        /\ lookups = <<>>
        /\ sent = <<>>
        /\ pc = "idle"

\* invalid JSON while lookup functions were given
C5_Witness ==
    /\ InvalidJson
    /\ ppc = "returned"
    /\ lookup_many_fn /\ lookup_title_many_fn
    /\ "error" \in DOMAIN result

\* C6 (as claimed): no fault of an external call leaves parse_query as an
\* exception, and once the extraction has produced an intent the request
\* ends with a result that carries the intent fields.
C6_OnlyExtractionAborts ==
    /\ ppc # "raised"
    /\ (ppc = "returned" /\ parsed # NoResult) =>
            "industry_summary" \in DOMAIN result

\* the batch of a name group has been received and its ids extracted
BatchTaken == lookup_results # <<>>

\* the lookup_many_fn call that produced lookup_results
LastLookupCall ==
    lookups[CHOOSE i \in DOMAIN lookups :
                /\ lookups[i].fn = "lookup_many_fn"
                /\ \A j \in DOMAIN lookups :
                      j > i => lookups[j].fn # "lookup_many_fn"]

\* the id list of the result that the last batch filled
LastIdList == result[NAME_GROUPS[LastLookupCall.group].ids]

\* candidates of item k of the last batch
Candidates(k) == ItemRows(lookup_results[k])

\* position in the id list of the id resolved for item k: ids are appended in
\* item order, one per item that has candidates
Rank(k) == Cardinality({j \in 1..k : Candidates(j) # <<>>})

\* the validation completion calls made for item k of the last batch
ValidationCallsFor(k) ==
    {i \in DOMAIN completions :
        completions[i] = ValidationCall(LastLookupCall.group, k)}

ZeroCandidates(k) ==
    /\ HasRows(lookup_results[k].result)
    /\ Candidates(k) = <<>>

C9_SingleCandidateChosenDirectly ==
    BatchTaken =>
        \A k \in DOMAIN lookup_results :
            Len(Candidates(k)) = 1 =>
                /\ Rank(k) <= Len(LastIdList)
                /\ LastIdList[Rank(k)] = Candidates(k)[1][1]
                /\ ValidationCallsFor(k) = {}

\* a term with exactly one candidate has been resolved
C9_Witness ==
    /\ BatchTaken
    /\ ppc = "returned"
    /\ \E k \in DOMAIN lookup_results :
        /\ Len(Candidates(k)) = 1
        /\ LastIdList[Rank(k)] = Candidates(k)[1][1]
        /\ completions = <<ExtractionCall>>

\* C10 (as claimed): for a term with more than one candidate exactly one
\* validation completion call is made before the term's id is produced.
C10_OneValidationCallWhenAmbiguous ==
    BatchTaken =>
        \A k \in DOMAIN lookup_results :
            Len(Candidates(k)) > 1 => Cardinality(ValidationCallsFor(k)) = 1

\* the most rows each function may return, as the contract states it
ContractCap(f) == IF f \in {"lookup", "lookup_title"} THEN 100 ELSE 1000

\* C11 (as claimed): for every limit the caller passes, the limit sent to the
\* backend is min(limit, 100) for lookup and lookup_title and min(limit, 1000)
\* for the lookalike functions, and the call returns at most 100 (1000) rows
\* however many rows the backend sends.
C11_LimitIsClamped ==
    /\ \A i \in DOMAIN request :
          request[i].queryVariables.limit = Min(args.limit, ContractCap(args.fn))
    /\ (cpc = "returned" /\ HasRows(retval)) =>
          Len(retval.rows) <= ContractCap(args.fn)

\* C13: when the embedding of lookalike_from_term takes more than 120 s or
\* raises, the call has returned (not raised) a dict that carries an error
\* and names the query, and no POST was sent to the backend.
C13_EmbeddingFailureIsAnErrorResult ==
    (cpc # "idle" /\ args.fn = "lookalike_from_term"
        /\ embed \in {"timeout", "raised"}) =>
        /\ cpc = "returned"
        /\ "error" \in DOMAIN retval
        /\ "query" \in DOMAIN retval
        /\ retval.query = args.query
        /\ request = <<>>

\* the embedding of lookalike_from_term timed out
C13_Witness ==
    /\ cpc = "returned"
    /\ args.fn = "lookalike_from_term"
    /\ embed = "timeout"
    /\ retval.error = <<"Embedding timeout">>

\* C12: called with an empty list, lookup_many and lookup_title_many return
\* an empty list at once: no lookup coroutine is created (so nothing is
\* embedded) and no request is sent.
C12_EmptyListMakesNoCall ==
    (pc # "idle" /\ queries = <<>>) =>
        /\ pc = "returned"
        /\ out = <<>>
        /\ tasks = <<>>
        /\ sent = <<>>

\* lookup_title_many returned for an empty list
C12_Witness ==
    /\ pc = "returned"
    /\ endpoint = "title"
    /\ queries = <<>>
    /\ out = <<>>

\* the truthy primary ids in the response of term k
TruthyIds(k) == ResultIds(tasks[k].res) \ {0}

\* positions of the rows of term k's response that a merge in input order
\* keeps: the id is truthy, no response of an earlier term holds it and no
\* earlier row of this response holds it
KeptPositions(k) ==
    LET rows == tasks[k].res.rows
    IN {i \in DOMAIN rows :
           /\ TruthyFirstCol(rows[i])
           /\ \A j \in 1..(k - 1) : rows[i][1] \notin TruthyIds(j)
           /\ \A h \in 1..(i - 1) : rows[h] # rows[i]}

\* the rows at those positions, in the order of the response
KeptRows(k) ==
    LET rows == tasks[k].res.rows
        idx == KeptPositions(k)
    IN [n \in 1..Cardinality(idx) |->
           rows[CHOOSE i \in idx : Cardinality({j \in idx : j < i}) = n - 1]]

\* the batch that the responses determine, term by term in input order
BatchOfResponses ==
    [k \in DOMAIN queries |->
        [query |-> queries[k],
         result |-> IF HasRows(tasks[k].res) /\ dedupe
                    THEN [tasks[k].res EXCEPT !.rows = KeptRows(k)]
                    ELSE tasks[k].res]]

\* C15: the batch lookup_many returns is a function of the terms and of the
\* response to each term alone: whatever the order in which the concurrent
\* lookups completed, it is the batch obtained by merging the responses in
\* input order.
C15_MergeIgnoresCompletionOrder ==
    pc = "returned" => out = BatchOfResponses

\* two terms answered with the same ids, the second answered first: the ids
\* stay with the first term
C15_Witness ==
    /\ pc = "returned" /\ dedupe /\ overtaken
    /\ Len(queries) = 2
    /\ HasRows(tasks[1].res) /\ HasRows(tasks[2].res)
    /\ TruthyIds(1) # {}
    /\ TruthyIds(1) = TruthyIds(2)
    /\ ResultIds(out[1].result) = TruthyIds(1)
    /\ ResultIds(out[2].result) = {}

\* the outcome of the lookup of item k of the last batch
Outcome(k) ==
    IF ~HasRows(lookup_results[k].result) THEN "lookup failed"
    ELSE IF Candidates(k) = <<>> THEN "no match"
    ELSE IF Len(Candidates(k)) > 1 THEN "ambiguous, resolved by fallback"
    ELSE "single match"

\* what the id list holds for item k: the id resolved for it, or nothing
OutputFor(k) ==
    IF Candidates(k) # <<>> /\ Rank(k) <= Len(LastIdList)
    THEN <<LastIdList[Rank(k)]>>
    ELSE <<>>

\* C14 (as claimed): what parse_query keeps of a batch tells the outcomes
\* apart: two terms of which one had no match, one a failed lookup or one an
\* ambiguous match resolved by fallback never get the same output.
C14_OutcomesAreDistinguishable ==
    BatchTaken =>
        \A k, j \in DOMAIN lookup_results :
            LET distinct ==
                    {"no match", "lookup failed", "ambiguous, resolved by fallback"}
            IN (Outcome(k) \in distinct /\ Outcome(j) \in distinct
                    /\ Outcome(k) # Outcome(j))
                => OutputFor(k) # OutputFor(j)

\* the credentials a request arrived with, wherever it carries them
CredentialsCarried(req) ==
    {<<extract_api_key_from_path(req.path)>>, <<req.query_api_key>>,
     <<RefererApiKey(req)>>, <<req.x_api_key>>, <<req.bearer>>,
     <<req.params_api_key>>, req.creds} \ {<<"">>, <<>>}

\* C16 (as claimed): every call made upstream for a request is made with
\* credentials that arrived with that request, and none with credentials
\* read from the environment of the process.
C16_CredentialsAreExplicit ==
    \A i \in DOMAIN upstream :
        /\ upstream[i].source = "request"
        /\ upstream[i].auth \in CredentialsCarried(reqs[upstream[i].rid].req)

\* the three employer-name lists of the intent, each with the id list of the
\* result that belongs to it
EmployerLists == <<
    [names |-> "explicit_comp_names_curr", ids |-> "explicit_comp_id_list_curr"],
    [names |-> "explicit_comp_names_past", ids |-> "explicit_comp_id_list_past"],
    [names |-> "explicit_comp_names_any", ids |-> "explicit_comp_id_list_any"] >>

\* the top ids of the batch a lookup_many_fn call returned
TopIds(batch) ==
    {ItemRows(batch[k])[1][1] :
        k \in {j \in DOMAIN batch : ItemRows(batch[j]) # <<>>}}

\* C17: each of the id lists of the current, past and any employers starts
\* empty and changes only when the lookup of its own name list returns: it
\* then holds top ids of that batch only, and the two other lists stay as
\* they are.
C17_EmployerListsAreIndependent ==
    [][\A g \in DOMAIN EmployerLists :
          LET ids == EmployerLists[g].ids
              names == EmployerLists[g].names
          IN /\ (ids \notin DOMAIN result /\ ids \in DOMAIN result')
                    => result'[ids] = <<>>
             /\ (ids \in DOMAIN result /\ ids \in DOMAIN result'
                    /\ result'[ids] # result[ids]) =>
                   /\ ppc = "await_lookup" /\ pc = "returned"
                   /\ NAME_GROUPS[lookups[Len(lookups)].group].names = names
                   /\ queries = Get(parsed, names, <<>>)
                   /\ \A i \in DOMAIN result'[ids] : result'[ids][i] \in TopIds(out)
                   /\ \A h \in DOMAIN EmployerLists \ {g} :
                         result'[EmployerLists[h].ids] = result[EmployerLists[h].ids]
      ]_vars

\* the same name was looked up for the current and for the any employers and
\* resolved to different ids: each list holds its own
C17_Witness ==
    /\ ppc = "returned"
    /\ parsed # NoResult
    /\ lookup_many_fn
    /\ Get(parsed, "explicit_comp_names_curr", <<>>) = <<"apple">>
    /\ Get(parsed, "explicit_comp_names_any", <<>>) = <<"apple">>
    /\ result["explicit_comp_id_list_curr"] = <<1>>
    /\ result["explicit_comp_id_list_any"] = <<2>>
    /\ result["explicit_comp_id_list_past"] = <<>>

\* the lookup_title_many_fn calls made
TitleCalls == {i \in DOMAIN lookups : lookups[i].fn = "lookup_title_many_fn"}

\* the extracted intent asks for employees and names titles, and a title
\* lookup function was given
TitlesAreWanted ==
    /\ parsed # NoResult
    /\ \E i \in DOMAIN Get(parsed, "filt_lead_type", <<>>) :
           parsed["filt_lead_type"][i] = "employee"
    /\ Get(parsed, "filt_emp_title", <<>>) # <<>>
    /\ lookup_title_many_fn

\* C18: the result parse_query returns carries filt_emp_title_ids exactly
\* when the lead type includes "employee", title terms are present and a
\* title lookup function was given; the list holds no title id twice; and a
\* title lookup is made at most once, and only in that case.
C18_TitleIdsAttachedWhenEmployee ==
    /\ (ppc = "returned" /\ parsed # NoResult) =>
          ("filt_emp_title_ids" \in DOMAIN result <=> TitlesAreWanted)
    /\ "filt_emp_title_ids" \in DOMAIN result =>
          \A i, j \in DOMAIN result["filt_emp_title_ids"] :
              i # j => result["filt_emp_title_ids"][i] # result["filt_emp_title_ids"][j]
    /\ TitleCalls # {} => TitlesAreWanted
    /\ Cardinality(TitleCalls) <= 1

\* two title terms resolved to two title ids
C18_Witness ==
    /\ ppc = "returned"
    /\ TitlesAreWanted
    /\ Len(parsed["filt_emp_title"]) = 2
    /\ "filt_emp_title_ids" \in DOMAIN result
    /\ Len(result["filt_emp_title_ids"]) = 2

\* C19 (as claimed): the batch lookup_title_many returns when called with its
\* default arguments holds no title_id in more than one row.
C19_TitleBatchIsDeduplicated ==
    (pc = "returned" /\ endpoint = "title") =>
        LET rows == AllRows(out, 1)
        IN \A i, j \in DOMAIN rows :
              (i # j /\ rows[i] # <<>> /\ rows[j] # <<>>) => rows[i][1] # rows[j][1]

\* the extracted intent states no filter at all
NoFilters == parsed # NoResult /\ DOMAIN parsed \cap FILTER_FIELDS = {}

\* C20 (as claimed): every result that is not an extraction error carries
\* filt_comp_hc as a pair, and for an intent without filters the pair is
\* [-1, -1] and filt_lead_type is ["company"].
C20_DefaultsArePresent ==
    (ppc = "returned" /\ parsed # NoResult) =>
        /\ "filt_comp_hc" \in DOMAIN result
        /\ Len(result["filt_comp_hc"]) = 2
        /\ NoFilters =>
              /\ result["filt_comp_hc"] = <<-1, -1>>
              /\ "filt_lead_type" \in DOMAIN result
              /\ result["filt_lead_type"] = <<"company">>

\* C21: every call of lookalike_from_ids with a non-empty id list sends one
\* POST whose queryVariables hold both filter keys: filter_hc is the value
\* given, or 0 when it is None; filter_cc2 is the list given, or [] when it
\* is None or empty.
C21_BothFiltersAlwaysSent ==
    (cpc # "idle" /\ args.fn = "lookalike_from_ids" /\ args.company_ids # <<>>) =>
        /\ Len(request) = 1
        /\ LET qv == request[1].queryVariables
           IN /\ {"filter_hc", "filter_cc2"} \subseteq DOMAIN qv
              /\ qv.filter_hc = IF args.filter_hc = <<>> THEN 0 ELSE args.filter_hc[1]
              /\ qv.filter_cc2 = IF args.filter_cc2 \in {<<>>, << <<>> >>}
                                 THEN <<>> ELSE args.filter_cc2[1]

\* lookalike_from_ids called without any filter: 0 and [] were sent
C21_Witness ==
    /\ cpc = "returned"
    /\ args.fn = "lookalike_from_ids"
    /\ args.company_ids = <<1, 2>>
    /\ args.filter_hc = <<>> /\ args.filter_cc2 = <<>>
    /\ request[1].queryVariables.filter_hc = 0
    /\ request[1].queryVariables.filter_cc2 = <<>>

\* C23: seen_ids and the returned list change in one step only, the one in
\* which lookup_many leaves the await of asyncio.gather and returns: at that
\* step every lookup coroutine of the call has returned, and the step changes
\* no coroutine.  No step of a lookup coroutine changes the set.
C23_MergeAfterBarrier ==
    [][(seen_ids' # seen_ids \/ out' # out) =>
          /\ pc = "awaiting" /\ pc' = "returned"
          /\ \A k \in DOMAIN tasks : tasks[k].st = "done"
          /\ tasks' = tasks
      ]_vars

\* the merge of two terms has run after both lookups returned, the second
\* before the first
C23_Witness ==
    /\ pc = "returned" /\ dedupe /\ overtaken
    /\ Len(tasks) = 2
    /\ \A k \in DOMAIN tasks : tasks[k].st = "done"
    /\ seen_ids # {}

\* the terms of the call that are not empty, in input order
NonEmptyTerms == SelectSeq(queries, TruthyTerm)

\* C24 (as claimed): for n terms lookup_many has issued exactly n requests
\* to the backend by the time it awaits, one per term, repeated and empty
\* terms included.
C24_OneBackendCallPerTerm ==
    (pc # "idle" /\ endpoint = "lookup") => Len(sent) = Len(queries)

\* C24 (amended): for n terms lookup_many creates n lookup coroutines, one
\* per term, repeated and empty terms included; by the time it awaits, hence
\* before any response and before the merge, one request has been sent for
\* each term that is not empty (none for an empty term, whose coroutine
\* returns an empty result at once), in input order, and each request is
\* made of its own term and of the limit alone.
C24_OneLookupPerTerm ==
    (pc # "idle" /\ endpoint = "lookup") =>
        /\ Len(tasks) = Len(queries)
        /\ Len(sent) = Len(NonEmptyTerms)
        /\ \A k \in DOMAIN sent :
              sent[k] = [query |-> NonEmptyTerms[k], limit |-> Min(limit, 100)]
        /\ \A k \in DOMAIN queries :
              queries[k] = "" => tasks[k] = [st |-> "done", res |-> EmptyLookupResult]

\* an empty term before "apple": lookup_many awaits two coroutines, having
\* sent the request of "apple" and none for the empty term
C24_Witness ==
    /\ pc = "awaiting" /\ endpoint = "lookup"
    /\ queries = <<"", "apple">>
    /\ Len(tasks) = 2
    /\ tasks[1].st = "done" /\ tasks[2].st = "pending"
    /\ Len(sent) = 1 /\ sent[1].query = "apple"

\* the terms whose lookup returned rows
OkPositions == {k \in DOMAIN tasks : HasRows(tasks[k].res)}

\* the entries of sq at those positions, in order
OkOnly(sq) ==
    [n \in 1..Cardinality(OkPositions) |->
        sq[CHOOSE i \in OkPositions : Cardinality({j \in OkPositions : j < i}) = n - 1]]

\* C27: in the batch lookup_many returns, the entry of a term whose lookup
\* gave an error holds that error dict unchanged, at the position of the
\* term; seen_ids holds ids of the successful responses only; and the
\* entries of the other terms are those of the batch merged without the
\* failed terms.
C27_ErrorEntryIsAFrame ==
    pc = "returned" =>
        /\ \A k \in DOMAIN tasks :
              ~HasRows(tasks[k].res) =>
                  out[k] = [query |-> queries[k], result |-> tasks[k].res]
        /\ seen_ids = IF dedupe THEN UNION {TruthyIds(k) : k \in OkPositions} ELSE {}
        /\ OkOnly(out) =
              MergeResults(OkOnly(queries), OkOnly([k \in DOMAIN tasks |-> tasks[k].res]),
                           dedupe).out

\* the lookup of the second term failed after the first had returned an id:
\* the batch holds the error at position 2 and the set holds the id
C27_Witness ==
    /\ pc = "returned" /\ dedupe
    /\ Len(queries) = 2
    /\ HasRows(tasks[1].res) /\ ~HasRows(tasks[2].res)
    /\ "error" \in DOMAIN out[2].result
    /\ out[2].result = tasks[2].res
    /\ seen_ids # {}
    /\ seen_ids = ResultIds(out[1].result)

\* C28 (as claimed): with dedupe on, a row of a successful response is left
\* out of the batch only if a row with its primary id was emitted before it,
\* so the primary ids of the batch are the primary ids of the successful
\* responses.
C28_OnlySeenIdsAreDropped ==
    (pc = "returned" /\ dedupe) =>
        UNION {ResultIds(out[k].result) : k \in DOMAIN out}
            = UNION {ResultIds(tasks[k].res) : k \in DOMAIN tasks}

\* C25 (as claimed): when every backend call returns or fails, every call of
\* lookup_many that awaits its lookups eventually returns a batch.
C25_EveryRequestReturnsABatch == (pc = "awaiting") ~> (pc = "returned")

C29_RowsWithinClampedLimit ==
    (cpc = "returned" /\ HasRows(retval)) =>
        Len(retval.rows) <= Max(0, Min(args.limit, ContractCap(args.fn)))

\* no source that do_POST reads holds an API key for the request
NoApiKey(req, env) ==
    /\ req.path \in {<<>>, <<"">>, <<"key", "">>}
    /\ ~req.has_query \/ req.query_api_key = ""
    /\ req.referer = <<>>
          \/ (req.referer[1].path \in {<<>>, <<"">>} /\ req.referer[1].api_key = "")
    /\ req.x_api_key = ""
    /\ req.bearer \in {"", "no_token"}
    /\ req.params_api_key = ""
    /\ env.FALLBACK_API_KEY = ""

\* C30: a tools/call of one of the tools that arrives at the handler with no
\* API key in its path, query string, Referer, X-Api-Key header, bearer
\* token or params, and with no fallback key in the environment, never
\* leads to a call upstream and is answered with the "Authentication
\* required" dict.
C30_NoKeyNoUpstreamCall ==
    \A r \in DOMAIN reqs :
        LET req == reqs[r].req
        IN (req.layer = "handler" /\ req.method = "tools/call"
                /\ req.tool \in TOOLS /\ NoApiKey(req, environ)) =>
               /\ reqs[r].st # "called"
               /\ \A i \in DOMAIN upstream : upstream[i].rid # r
               /\ reqs[r].st = "done" =>
                      /\ "error" \in DOMAIN reqs[r].response
                      /\ reqs[r].response.error = "Authentication required"

\* a call of lookup with 'Bearer no_token' and nothing else was answered
\* "Authentication required", next to a request with a key that was sent
\* upstream
C30_Witness ==
    /\ environ.FALLBACK_API_KEY = ""
    /\ Len(reqs) = 2
    /\ reqs[1].req.bearer = "no_token"
    /\ NoApiKey(reqs[1].req, environ)
    /\ reqs[1].st = "done"
    /\ reqs[1].response = AuthenticationRequired
    /\ reqs[2].req.x_api_key = "key_b"
    /\ reqs[2].st = "called"
    /\ Len(upstream) = 1 /\ upstream[1].rid = 2

============================================================================
